---------------------------- MODULE Spec2Model ----------------------------
(***************************************************************************)
(* Model of cpp-utils: the weighted-index sampler in its function form     *)
(* (Random.hpp, discrete_distribution_pick) and its class form             *)
(* (discrete_distribution_safe), and the stopwatch of Timer.hpp.           *)
(*                                                                         *)
(* The sampler delegates to std::discrete_distribution and to the caller's *)
(* PRNG engine.  Both are modelled as the GNU C++ library (the toolchain   *)
(* README.md names) computes them: weights are IEEE doubles (finite values *)
(* as exact fractions, plus the two infinities and NaN), the distribution  *)
(* normalises and accumulates them, a draw reads one generate_canonical    *)
(* value from the engine and searches the cumulative table.                *)
(***************************************************************************)
EXTENDS Integers, Sequences, FiniteSets

VARIABLES
  weights,       \* the caller's weight range [first, last)
  form,          \* "pick": discrete_distribution_pick, "safe": the class
  build,         \* what the template arguments and compiler flags fix
  pc,            \* per instance: "new", "ready" or "aborted"
  sampler,       \* per instance: the members of discrete_distribution_safe
  gen,           \* per instance: the caller's engine (state, steps advanced)
  out,           \* per instance: the indices returned so far
  path,          \* per instance: the branch each draw took
  distribBuilt,  \* per instance: a std::discrete_distribution was built from weights
  now,           \* std::chrono::steady_clock::now()
  timer,         \* the members of Timer
  op,            \* the Timer member function called last ("tick": the clock moved)
  ret,           \* what the last elapsed() returned
  ranFor,        \* clock ticks that passed while the timer was running
  stopped,       \* pause() or reset() was called after the last start()
  resetSeen      \* reset() was called at some point

samplerVars == <<weights, form, build, pc, sampler, gen, out, path, distribBuilt>>
timerVars == <<now, timer, op, ret, ranFor, stopped, resetSeen>>
vars == <<samplerVars, timerVars>>

-----------------------------------------------------------------------------
(* Bounds of the model. *)

MaxLen == 3
PairMaxLen == 2
MaxDraws == 2
EngineRange == 4
MaxTime == 5

-----------------------------------------------------------------------------
(* IEEE double, as far as the sampler can tell values apart. *)

Fin(n, d) == [k |-> "fin", n |-> n, d |-> d]
PInf == [k |-> "inf", n |-> 1, d |-> 0]
NInf == [k |-> "inf", n |-> -1, d |-> 0]
NaN == [k |-> "nan", n |-> 0, d |-> 0]

Zero == Fin(0, 1)
One == Fin(1, 1)

Sign(n) == IF n < 0 THEN -1 ELSE 1
Abs(n) == IF n < 0 THEN -n ELSE n

isinf(w) == w.k = "inf"
isnan(w) == w.k = "nan"

DAdd(a, b) ==
  IF isnan(a) \/ isnan(b) THEN NaN
  ELSE IF isinf(a) /\ isinf(b) THEN (IF a.n = b.n THEN a ELSE NaN)
  ELSE IF isinf(a) THEN a
  ELSE IF isinf(b) THEN b
  ELSE Fin(a.n * b.d + b.n * a.d, a.d * b.d)

DDiv(a, b) ==
  IF isnan(a) \/ isnan(b) THEN NaN
  ELSE IF isinf(a) /\ isinf(b) THEN NaN
  ELSE IF isinf(a) THEN (IF a.n * Sign(b.n) > 0 THEN PInf ELSE NInf)
  ELSE IF isinf(b) THEN Zero
  ELSE IF b.n = 0 THEN (IF a.n = 0 THEN NaN ELSE IF a.n > 0 THEN PInf ELSE NInf)
  ELSE Fin(a.n * b.d * Sign(b.n), a.d * Abs(b.n))

DLess(a, b) ==
  IF isnan(a) \/ isnan(b) THEN FALSE
  ELSE IF isinf(a) THEN a.n < 0 /\ ~(isinf(b) /\ b.n < 0)
  ELSE IF isinf(b) THEN b.n > 0
  ELSE a.n * b.d < b.n * a.d


-----------------------------------------------------------------------------
(* The caller's engine (GenType).  Its state advances one step per call    *)
(* and the value returned is the new state; steps counts the advancements. *)

EngineCall(g) == [x |-> (g.x + 1) % EngineRange, steps |-> g.steps + 1]

RECURSIVE discard(_, _)
discard(g, z) == IF z = 0 THEN g ELSE discard(EngineCall(g), z - 1)

(* std::generate_canonical<double, 53>: calls engine invocations, the      *)
(* first one the least significant, scaled into [0, 1).                    *)
RECURSIVE Canonical(_, _, _, _)
Canonical(g, calls, sum, tmp) ==
  IF calls = 0 THEN [val |-> Fin(sum, tmp), g |-> g]
  ELSE LET g1 == EngineCall(g)
       IN Canonical(g1, calls - 1, sum + g1.x * tmp, tmp * EngineRange)

generate_canonical(g) == Canonical(g, build.canonCalls, 0, 1)

-----------------------------------------------------------------------------
(* std::discrete_distribution<IntType>, GNU implementation. *)

RECURSIVE accumulate(_, _)
accumulate(w, init) ==
  IF w = <<>> THEN init ELSE accumulate(Tail(w), DAdd(init, Head(w)))

RECURSIVE partial_sum(_)
partial_sum(p) ==
  IF Len(p) <= 1 THEN p
  ELSE LET front == partial_sum(SubSeq(p, 1, Len(p) - 1))
       IN Append(front, DAdd(front[Len(front)], p[Len(p)]))

(* param_type::_M_initialize.  sumOk is the condition of its assertion.    *)
DiscreteDistribution(w) ==
  IF Len(w) < 2 THEN [prob |-> <<>>, cp |-> <<>>, sumOk |-> TRUE]
  ELSE LET sum == accumulate(w, Zero)
           prob == [i \in 1..Len(w) |-> DDiv(w[i], sum)]
           cp == partial_sum(prob)
       IN [prob |-> prob,
           cp |-> [cp EXCEPT ![Len(w)] = One],
           sumOk |-> DLess(Zero, sum)]

(* The construction terminates the process when the assertion is compiled  *)
(* in and fails.                                                           *)
Aborts(d) == build.assertions /\ ~d.sumOk

(* std::lower_bound over positions first .. first + len - 1 of cp. *)
RECURSIVE lower_bound(_, _, _, _)
lower_bound(cp, first, len, val) ==
  IF len = 0 THEN first
  ELSE LET half == len \div 2
           mid == first + half
       IN IF DLess(cp[mid], val)
          THEN lower_bound(cp, mid + 1, len - half - 1, val)
          ELSE lower_bound(cp, first, half, val)

(* discrete_distribution::operator()(urng): the index and the engine after. *)
DistribCall(d, g) ==
  IF d.cp = <<>> THEN [idx |-> 0, g |-> g]
  ELSE LET c == generate_canonical(g)
       IN [idx |-> lower_bound(d.cp, 1, Len(d.cp), c.val) - 1, g |-> c.g]

-----------------------------------------------------------------------------
(* The sampler. *)

IntMax == 2147483647

(* Mutant of findInf: the scan keeps the last infinite entry. *)
findInfLast(w) ==
  IF \E i \in 1..Len(w) : isinf(w[i])
  THEN CHOOSE i \in 1..Len(w) : isinf(w[i]) /\ \A j \in (i + 1)..Len(w) : ~isinf(w[j])
  ELSE Len(w) + 1

(* std::find_if(first, last, findInf): the position found, Len(w) + 1 for last. *)
findInf(w) ==
  IF \E i \in 1..Len(w) : isinf(w[i])
  THEN CHOOSE i \in 1..Len(w) : isinf(w[i]) /\ \A j \in 1..(i - 1) : ~isinf(w[j])
  ELSE Len(w) + 1

(* Mutant of SafeCtor: the flag is set and the index is left at its        *)
(* placeholder.                                                            *)
SafeCtorNoIndex(w) ==
  [m_distrib |-> DiscreteDistribution(w),
   m_infiniteIndex |-> IntMax,
   m_infiniteWeight |-> \E i \in 1..Len(w) : isinf(w[i])]

(* discrete_distribution_safe's constructor: the member initialisers, then *)
(* the scan.                                                               *)
SafeCtor(w) ==
  LET it == findInf(w)
  IN [m_distrib |-> DiscreteDistribution(w),
      m_infiniteIndex |-> IF it # Len(w) + 1 THEN it - 1 ELSE IntMax,
      m_infiniteWeight |-> it # Len(w) + 1]

(* Mutant of SafeCall: a draw on the infinite path clears the flag. *)
SafeCallClearsFlag(self, g) ==
  IF ~self.m_infiniteWeight
  THEN LET r == DistribCall(self.m_distrib, g)
       IN [idx |-> r.idx, g |-> r.g, path |-> "finite", self |-> self]
  ELSE [idx |-> self.m_infiniteIndex, g |-> discard(g, 1), path |-> "infinite",
        self |-> [self EXCEPT !.m_infiniteWeight = FALSE]]

(* Mutant of SafeCall: the index is drawn from one engine shared by every  *)
(* sampler instead of the engine supplied.                                 *)
SafeCallSharedEngine(self, g) ==
  IF ~self.m_infiniteWeight
  THEN [idx |-> DistribCall(self.m_distrib, gen[1]).idx,
        g |-> DistribCall(self.m_distrib, g).g, path |-> "finite", self |-> self]
  ELSE [idx |-> self.m_infiniteIndex, g |-> discard(g, 1),
        path |-> "infinite", self |-> self]

(* discrete_distribution_safe::operator(): index, engine, branch, object. *)
SafeCall(self, g) ==
  IF ~self.m_infiniteWeight
  THEN LET r == DistribCall(self.m_distrib, g)
       IN [idx |-> r.idx, g |-> r.g, path |-> "finite", self |-> self]
  ELSE [idx |-> self.m_infiniteIndex, g |-> discard(g, 1),
        path |-> "infinite", self |-> self]

(* discrete_distribution_pick: index, engine, branch, whether a            *)
(* distribution was built, whether building it aborted.                    *)
PickCall(w, g) ==
  LET it == findInf(w)
  IN IF it = Len(w) + 1
     THEN LET distrib == DiscreteDistribution(w)
              r == DistribCall(distrib, g)
          IN [idx |-> r.idx, g |-> r.g, path |-> "finite",
              built |-> TRUE, aborted |-> Aborts(distrib)]
     ELSE [idx |-> it - 1, g |-> discard(g, 1), path |-> "infinite",
           built |-> FALSE, aborted |-> FALSE]

NoSampler ==
  [m_distrib |-> [prob |-> <<>>, cp |-> <<>>, sumOk |-> TRUE],
   m_infiniteIndex |-> IntMax, m_infiniteWeight |-> FALSE]

-----------------------------------------------------------------------------
(* Inputs. *)

FiniteWeights == {Fin(-1, 1), Fin(0, 1), Fin(1, 1), Fin(2, 1)}
Weight == FiniteWeights \cup {PInf, NInf, NaN}

SeqsUpTo(S, n) == UNION {[1..m -> S] : m \in 0..n}

CanonicalCalls == {1, 2}
Builds == [canonCalls : CanonicalCalls, assertions : BOOLEAN]
Forms == {"pick", "safe"}
Inst == {1, 2}

-----------------------------------------------------------------------------
(* The stopwatch is idle in the sampler's specifications and vice versa. *)

TimerIdle ==
  /\ now = 0
  /\ timer = [m_startTime |-> 0, m_duration |-> 0, m_running |-> FALSE]
  /\ op = "none"
  /\ ret = 0
  /\ ranFor = 0
  /\ stopped = FALSE
  /\ resetSeen = FALSE

InitSampler(maxLen) ==
  /\ weights \in SeqsUpTo(Weight, maxLen)
  /\ form \in Forms
  /\ build \in Builds
  /\ pc = [i \in Inst |-> IF form = "safe" THEN "new" ELSE "ready"]
  /\ sampler = [i \in Inst |-> NoSampler]
  /\ \E seed \in 0..(EngineRange - 1) :
       gen = [i \in Inst |-> [x |-> seed, steps |-> 0]]
  /\ out = [i \in Inst |-> <<>>]
  /\ path = [i \in Inst |-> <<>>]
  /\ distribBuilt = [i \in Inst |-> FALSE]
  /\ TimerIdle

(* Sampler i is constructed from the weights. *)
Construct(i) ==
  /\ form = "safe"
  /\ pc[i] = "new"
  /\ LET s == SafeCtor(weights)
     IN /\ distribBuilt' = [distribBuilt EXCEPT ![i] = TRUE]
        /\ IF Aborts(s.m_distrib)
           THEN /\ pc' = [pc EXCEPT ![i] = "aborted"]
                /\ UNCHANGED sampler
           ELSE /\ pc' = [pc EXCEPT ![i] = "ready"]
                /\ sampler' = [sampler EXCEPT ![i] = s]
  /\ UNCHANGED <<weights, form, build, gen, out, path, timerVars>>

(* One draw from sampler i with engine i. *)
DrawSafe(i) ==
  /\ form = "safe"
  /\ pc[i] = "ready"
  /\ Len(out[i]) < MaxDraws
  /\ LET r == SafeCall(sampler[i], gen[i])
     IN /\ sampler' = [sampler EXCEPT ![i] = r.self]
        /\ gen' = [gen EXCEPT ![i] = r.g]
        /\ out' = [out EXCEPT ![i] = Append(@, r.idx)]
        /\ path' = [path EXCEPT ![i] = Append(@, r.path)]
  /\ UNCHANGED <<weights, form, build, pc, distribBuilt, timerVars>>

(* One call of discrete_distribution_pick on the weights with engine i. *)
DrawPick(i) ==
  /\ form = "pick"
  /\ pc[i] = "ready"
  /\ Len(out[i]) < MaxDraws
  /\ LET r == PickCall(weights, gen[i])
     IN /\ distribBuilt' = [distribBuilt EXCEPT ![i] = @ \/ r.built]
        /\ IF r.aborted
           THEN /\ pc' = [pc EXCEPT ![i] = "aborted"]
                /\ UNCHANGED <<gen, out, path>>
           ELSE /\ gen' = [gen EXCEPT ![i] = r.g]
                /\ out' = [out EXCEPT ![i] = Append(@, r.idx)]
                /\ path' = [path EXCEPT ![i] = Append(@, r.path)]
                /\ UNCHANGED pc
  /\ UNCHANGED <<weights, form, build, sampler, timerVars>>

Init == InitSampler(MaxLen)

Next == Construct(1) \/ DrawSafe(1) \/ DrawPick(1)

Spec == Init /\ [][Next]_vars

InitPair == InitSampler(PairMaxLen)

NextPair == \E i \in Inst : Construct(i) \/ DrawSafe(i) \/ DrawPick(i)

SpecPair == InitPair /\ [][NextPair]_vars

-----------------------------------------------------------------------------
(* Timer.hpp.  Durations and time points count ticks of steady_clock. *)

MantissaBits == 24

RECURSIVE Pow2(_)
Pow2(e) == IF e = 0 THEN 1 ELSE 2 * Pow2(e - 1)

RECURSIVE Ulp(_, _)
Ulp(x, q) == IF x < Pow2(MantissaBits) * q THEN q ELSE Ulp(x, 2 * q)

(* The conversion of a tick count to float: to the nearest value with a    *)
(* MantissaBits-bit significand, ties to the even one.                     *)
ToFloat(x) ==
  LET q == Ulp(x, 1)
      lo == (x \div q) * q
      r == x - lo
  IN IF 2 * r < q THEN lo
     ELSE IF 2 * r > q THEN lo + q
     ELSE IF (lo \div q) % 2 = 0 THEN lo ELSE lo + q

start(t, clock) == [t EXCEPT !.m_startTime = clock, !.m_running = TRUE]

(* Timer(): the members value-initialised, then start(). *)
TimerCtor(clock) ==
  start([m_startTime |-> 0, m_duration |-> 0, m_running |-> FALSE], clock)

reset(t) == [t EXCEPT !.m_duration = 0, !.m_running = FALSE]

(* Mutant of pause: the interval is added and the timer keeps running. *)
pauseKeepsRunning(t, clock) ==
  IF t.m_running
  THEN [t EXCEPT !.m_duration = @ + (clock - t.m_startTime)]
  ELSE t

pause(t, clock) ==
  IF t.m_running
  THEN [t EXCEPT !.m_duration = @ + (clock - t.m_startTime), !.m_running = FALSE]
  ELSE t

(* elapsed<DurationType>() for a DurationType of the clock's period. *)
elapsed(t, clock) ==
  LET d == IF t.m_running THEN t.m_duration + (clock - t.m_startTime)
           ELSE t.m_duration
  IN ToFloat(d)

SamplerIdle ==
  /\ weights = <<>>
  /\ form = "pick"
  /\ build = [canonCalls |-> 1, assertions |-> FALSE]
  /\ pc = [i \in Inst |-> "ready"]
  /\ sampler = [i \in Inst |-> NoSampler]
  /\ gen = [i \in Inst |-> [x |-> 0, steps |-> 0]]
  /\ out = [i \in Inst |-> <<>>]
  /\ path = [i \in Inst |-> <<>>]
  /\ distribBuilt = [i \in Inst |-> FALSE]

InitTimer ==
  /\ now \in 0..MaxTime
  /\ timer = TimerCtor(now)
  /\ op = "Timer"
  /\ ret = 0
  /\ ranFor = 0
  /\ stopped = FALSE
  /\ resetSeen = FALSE
  /\ SamplerIdle

(* The steady clock moves on by one tick. *)
Tick ==
  /\ now < MaxTime
  /\ now' = now + 1
  /\ ranFor' = IF stopped THEN ranFor ELSE ranFor + 1
  /\ op' = "tick"
  /\ UNCHANGED <<timer, ret, stopped, resetSeen, samplerVars>>

TimerStart ==
  /\ timer' = start(timer, now)
  /\ op' = "start"
  /\ stopped' = FALSE
  /\ UNCHANGED <<now, ret, ranFor, resetSeen, samplerVars>>

TimerPause ==
  /\ timer' = pause(timer, now)
  /\ op' = "pause"
  /\ stopped' = TRUE
  /\ UNCHANGED <<now, ret, ranFor, resetSeen, samplerVars>>

TimerReset ==
  /\ timer' = reset(timer)
  /\ op' = "reset"
  /\ stopped' = TRUE
  /\ resetSeen' = TRUE
  /\ ranFor' = 0
  /\ UNCHANGED <<now, ret, samplerVars>>

TimerElapsed ==
  /\ ret' = elapsed(timer, now)
  /\ op' = "elapsed"
  /\ UNCHANGED <<now, timer, ranFor, stopped, resetSeen, samplerVars>>

NextTimer == Tick \/ TimerStart \/ TimerPause \/ TimerReset \/ TimerElapsed

SpecTimer == InitTimer /\ [][NextTimer]_vars

-----------------------------------------------------------------------------
(* Vocabulary of the properties. *)

NonNegative(x) == x = PInf \/ (x.k = "fin" /\ x.n >= 0)

(* A weight sequence as the specification defines one. *)
ValidWeights(w) == Len(w) >= 1 /\ \A i \in 1..Len(w) : NonNegative(w[i])

(* Valid, and with a positive sum when every weight is finite. *)
WellFormed(w) == ValidWeights(w) /\ \E i \in 1..Len(w) : w[i] # Zero

HasPInf(w) == \E i \in 1..Len(w) : w[i] = PInf

FirstPInf(w) == CHOOSE i \in 1..Len(w) : w[i] = PInf /\ \A j \in 1..(i - 1) : w[j] # PInf

Misuse(w) ==
  \/ w = <<>>
  \/ \E i \in 1..Len(w) : w[i] = NaN
  \/ \E i \in 1..Len(w) : w[i] = NInf \/ (w[i].k = "fin" /\ w[i].n < 0)

Min(a, b) == IF a < b THEN a ELSE b

-----------------------------------------------------------------------------
(* C1: every draw advances the generator by exactly one step on both       *)
(* paths, so after k draws from a weight sequence of length >= 1 the       *)
(* generator has advanced k steps.                                         *)
C1_OneStepPerDraw ==
  WellFormed(weights) => gen[1].steps = Len(out[1])

(* C2: when the weights contain +infinity, first at position i, every draw *)
(* returns i, whatever the generator's state.                              *)
C2_FirstInfiniteWins ==
  (ValidWeights(weights) /\ HasPInf(weights)) =>
    \A k \in 1..Len(out[1]) : out[1][k] = FirstPInf(weights) - 1

C2_Witness ==
  /\ form = "safe"
  /\ weights = <<Fin(2, 1), PInf, PInf>>
  /\ Len(out[1]) = 2
  /\ gen[1].x # 2

(* C3: for valid weights of length n >= 1 every index returned is in       *)
(* [0, n); the placeholders n and IntMax are never returned.               *)
C3_IndexInRange ==
  ValidWeights(weights) =>
    \A k \in 1..Len(out[1]) : out[1][k] \in 0..(Len(weights) - 1)

C3_Witness ==
  /\ ValidWeights(weights) /\ ~HasPInf(weights)
  /\ Len(weights) = 3
  /\ out[1] = <<0, 2>>

(* C4: an empty weight sequence, a negative weight or a NaN weight is      *)
(* rejected: no index is returned and the generator is not advanced.       *)
C4_MisuseRejected ==
  Misuse(weights) => (out[1] = <<>> /\ gen[1].steps = 0)

(* C5: a draw changes only the generator: the weights and the sampler's    *)
(* members stay as constructed, and every draw takes the path the first    *)
(* one took.                                                               *)
C5_DrawFramesSampler ==
  /\ [][(Len(out'[1]) > Len(out[1])) =>
          (sampler'[1] = sampler[1] /\ weights' = weights)]_vars
  /\ [](\A k \in 1..Len(path[1]) : path[1][k] = path[1][1])
  /\ []((form = "safe" /\ pc[1] = "ready") => sampler[1] = SafeCtor(weights))

C5_Witness ==
  /\ form = "safe"
  /\ sampler[1].m_infiniteWeight
  /\ sampler[1].m_infiniteIndex = 1
  /\ Len(out[1]) = 2

C7_ElapsedIsRunningTime ==
  (op = "elapsed" /\ ~resetSeen) => ret = ToFloat(ranFor)

(* C8: from weights that contain an infinite weight no categorical         *)
(* distribution is ever built, in the function form and in the class form. *)
C8_NoDistribFromInfinite ==
  (ValidWeights(weights) /\ HasPInf(weights)) => ~distribBuilt[1]

(* C9: for every input, -infinity and NaN included, the infinite-weight    *)
(* path is taken iff some weight is +infinity, and it returns the index of *)
(* the first +infinity.                                                    *)
C9_InfinitePathIffPInf ==
  \A k \in 1..Len(path[1]) :
    /\ path[1][k] = "infinite" <=> HasPInf(weights)
    /\ path[1][k] = "infinite" => out[1][k] = FirstPInf(weights) - 1

(* C10: a timer that is not running accumulates nothing: between pause()   *)
(* or reset() and the next start(), what elapsed() returns does not change *)
(* as the clock moves on, it is zero after reset(), and pause() changes    *)
(* neither the accumulated duration nor the running flag.                  *)
C10_StoppedTimerIsFrozen ==
  [][/\ (stopped /\ op' \in {"tick", "pause", "elapsed"}) =>
          /\ elapsed(timer', now') = elapsed(timer, now)
          /\ timer'.m_duration = timer.m_duration
          /\ timer'.m_running = timer.m_running
          /\ ~timer.m_running
     /\ (stopped /\ op' = "elapsed") => ret' = elapsed(timer, now)
     /\ op' = "reset" => elapsed(timer', now') = 0]_vars

C10_Witness ==
  /\ stopped /\ ~resetSeen
  /\ op = "elapsed"
  /\ ret = 2
  /\ ranFor = 2
  /\ now = timer.m_startTime + 4

=============================================================================
